---- MODULE Spec2Model ----
(***************************************************************************)
(* FocusDash (sites/focusdash_site/app.js): the countdown timer automaton  *)
(* and the load / modify / save / re-render protocol of the task, project  *)
(* and habit lists over localStorage.                                      *)
(*                                                                         *)
(* app.js holds two drafts of the script: lines 1-137 (feature complete)   *)
(* and lines 139-229 (defensive rewrite whose list functions are stubs).   *)
(* The variable draft selects which of the two is the running script.      *)
(***************************************************************************)
EXTENDS Integers, Sequences, FiniteSets, TLC

VARIABLES
  draft,        \* 1: app.js 1-137, 2: app.js 139-229
  op,           \* history: the handler that ran last, with its inputs
  timerMode,    \* "focus" | "break"
  remaining,    \* JS number (see Num / NaN)
  tick,         \* interval handle held by the script, or Null
  intervals,    \* interval handles the browser has active
  focusMin,     \* the #focusMin input element: [present, value]
  breakMin,     \* the #breakMin input element: [present, value]
  page,         \* which page of the site is open (which elements exist)
  store,        \* localStorage: key -> raw value
  now,          \* the local calendar date of the wall clock
  capTasks,     \* tasks array captured by the closures of the last renderTasks
  capProjects,  \* projects array captured by the last renderProjects
  capHabits,    \* [habits, today]: array and date of the last renderHabits
  kpi,          \* [planned, done] figures written by updateKPIs
  incToday,     \* history: per habit id, streak increments on the date now
  other         \* a second tab in the middle of an add: [pc, loaded]

timerVars == <<timerMode, remaining, tick, intervals, focusMin, breakMin>>
listVars  == <<page, store, now, capTasks, capProjects, capHabits, kpi, incToday, other>>
vars      == <<draft, op, timerVars, listVars>>

(***************************************************************************)
(* JavaScript numbers: an integer or NaN.                                  *)
(***************************************************************************)
Num(v) == [nan |-> FALSE, v |-> v]
NaN    == [nan |-> TRUE, v |-> 0]

\* Math.min / Math.max: NaN if either argument is NaN
MathMin(a, b) == IF a.nan \/ b.nan THEN NaN ELSE IF a.v <= b.v THEN a ELSE b
MathMax(a, b) == IF a.nan \/ b.nan THEN NaN ELSE IF a.v >= b.v THEN a ELSE b
Times(a, b)   == IF a.nan \/ b.nan THEN NaN ELSE Num(a.v * b.v)
Minus(a, b)   == IF a.nan \/ b.nan THEN NaN ELSE Num(a.v - b.v)
\* !x for a number: true for 0 and NaN
Falsy(a)      == a.nan \/ a.v = 0
\* a < b and a > b are false when either side is NaN
Less(a, b)    == ~a.nan /\ ~b.nan /\ a.v < b.v
Greater(a, b) == ~a.nan /\ ~b.nan /\ a.v > b.v

(***************************************************************************)
(* parseInt(s, 10) on a string given as a sequence of characters:          *)
(* leading blanks are skipped, one sign is accepted, then the longest run  *)
(* of decimal digits is read; no digit at all gives NaN.                   *)
(***************************************************************************)
DigitChars == {"0", "1", "2", "3", "4", "5", "6", "7", "8", "9"}
DigitVal(c) ==
  CASE c = "0" -> 0 [] c = "1" -> 1 [] c = "2" -> 2 [] c = "3" -> 3
    [] c = "4" -> 4 [] c = "5" -> 5 [] c = "6" -> 6 [] c = "7" -> 7
    [] c = "8" -> 8 [] c = "9" -> 9

RECURSIVE SkipBlanks(_)
SkipBlanks(s) ==
  IF s # <<>> /\ Head(s) = " " THEN SkipBlanks(Tail(s)) ELSE s

RECURSIVE ReadDigits(_, _, _)
ReadDigits(s, acc, seen) ==
  IF s # <<>> /\ Head(s) \in DigitChars
    THEN ReadDigits(Tail(s), 10 * acc + DigitVal(Head(s)), TRUE)
    ELSE [seen |-> seen, v |-> acc]

parseInt(str) ==
  LET s    == SkipBlanks(str)
      neg  == s # <<>> /\ Head(s) = "-"
      body == IF s # <<>> /\ Head(s) \in {"-", "+"} THEN Tail(s) ELSE s
      r    == ReadDigits(body, 0, FALSE)
  IN IF ~r.seen THEN NaN ELSE Num(IF neg THEN 0 - r.v ELSE r.v)

\* value || dflt on strings: the empty string is falsy
OrDefault(value, dflt) == IF value = <<>> THEN dflt ELSE value

(***************************************************************************)
(* Timer automaton                                                         *)
(***************************************************************************)
\* the values a user can leave in a duration field
FocusValues == { <<>>, <<"a", "b", "c">>, <<"3">>, <<"7">>, <<"9", "9", "9">> }
BreakValues == { <<>>, <<"x">>, <<"0">>, <<"2">>, <<"9", "9">> }

Absent == [present |-> FALSE, value |-> <<>>]
El(v)  == [present |-> TRUE, value |-> v]

\* setInterval handles; 0 stands for null (both are falsy in if(tick))
Handles == {1, 2}

\* first draft: clamp with Math.max / Math.min
fmin1(f) ==
  IF f.present
    THEN MathMax(Num(5), MathMin(Num(90), parseInt(OrDefault(f.value, <<"2", "5">>))))
    ELSE Num(25)
bmin1(b) ==
  IF b.present
    THEN MathMax(Num(1), MathMin(Num(30), parseInt(OrDefault(b.value, <<"5">>))))
    ELSE Num(5)

\* second draft: default when falsy or below the lower bound, cap above
fmin2(f) ==
  LET p == IF f.present THEN parseInt(OrDefault(f.value, <<"2", "5">>)) ELSE Num(25)
      q == IF Falsy(p) \/ Less(p, Num(5)) THEN Num(25) ELSE p
  IN IF Greater(q, Num(90)) THEN Num(90) ELSE q
bmin2(b) ==
  LET p == IF b.present THEN parseInt(OrDefault(b.value, <<"5">>)) ELSE Num(5)
      q == IF Falsy(p) \/ Less(p, Num(1)) THEN Num(5) ELSE p
  IN IF Greater(q, Num(30)) THEN Num(30) ELSE q

fmin(d, f) == IF d = 1 THEN fmin1(f) ELSE fmin2(f)
bmin(d, b) == IF d = 1 THEN bmin1(b) ELSE bmin2(b)

\* the value setTimerFromInputs assigns to remaining
setTimerFromInputs(d, mode, f, b) ==
  Times(IF mode = "focus" THEN fmin(d, f) ELSE bmin(d, b), Num(60))

Flip(mode) == IF mode = "focus" THEN "break" ELSE "focus"

\* one call of step() on the timer fields t = [mode, remaining]
step(d, t, f, b) ==
  LET r == MathMax(Num(0), Minus(t.remaining, Num(1)))
  IN IF r = Num(0)
       THEN [mode |-> Flip(t.mode),
             remaining |-> setTimerFromInputs(d, Flip(t.mode), f, b)]
       ELSE [mode |-> t.mode, remaining |-> r]

\* one elapsed second: every active interval calls step() once
RECURSIVE stepN(_, _, _, _, _)
stepN(n, d, t, f, b) ==
  IF n = 0 THEN t ELSE stepN(n - 1, d, step(d, t, f, b), f, b)

\* history record of a handler run: its name (with "/empty" when it returned
\* on an empty text), which localStorage calls failed in it (wfail: its save,
\* rfail: its own load, kfail: the load of updateKPIs, vfail: the load of the
\* re-render), whether it threw, and arg: the clicked index, the handle tick
\* held when start was pressed, or the stored length wipeAll found
ListOp(name, wfail, rfail, kfail, vfail, threw, arg) ==
  [name |-> name, wfail |-> wfail, rfail |-> rfail, kfail |-> kfail,
   vfail |-> vfail, threw |-> threw, arg |-> arg]
Op(name) == ListOp(name, FALSE, FALSE, FALSE, FALSE, FALSE, 0)

ChangeFocusMin ==
  /\ focusMin.present
  /\ \E v \in FocusValues :
       /\ focusMin' = El(v)
       /\ remaining' = setTimerFromInputs(draft, timerMode, El(v), breakMin)
  /\ op' = Op("configure")
  /\ UNCHANGED <<draft, timerMode, tick, intervals, breakMin, listVars>>

ChangeBreakMin ==
  /\ breakMin.present
  /\ \E v \in BreakValues :
       /\ breakMin' = El(v)
       /\ remaining' = setTimerFromInputs(draft, timerMode, focusMin, El(v))
  /\ op' = Op("configure")
  /\ UNCHANGED <<draft, timerMode, tick, intervals, focusMin, listVars>>

\* setInterval: the browser activates a handle that is not in use
NewHandle(h) == h \in Handles \ intervals /\ \A g \in Handles \ intervals : h <= g

\* mutant of startTimer: no if(tick) return
startTimerNoGuard ==
  /\ \E h \in Handles : NewHandle(h) /\ tick' = h /\ intervals' = intervals \cup {h}
  /\ op' = ListOp("start", FALSE, FALSE, FALSE, FALSE, FALSE, tick)
  /\ UNCHANGED <<draft, timerMode, remaining, focusMin, breakMin, listVars>>

startTimer ==
  /\ IF tick # 0
       THEN UNCHANGED <<tick, intervals>>
       ELSE \E h \in Handles : NewHandle(h) /\ tick' = h /\ intervals' = intervals \cup {h}
  /\ op' = ListOp("start", FALSE, FALSE, FALSE, FALSE, FALSE, tick)
  /\ UNCHANGED <<draft, timerMode, remaining, focusMin, breakMin, listVars>>

\* mutant of pauseEffect: tick is set to null without clearInterval
pauseEffectNoClear ==
  IF tick = 0
    THEN UNCHANGED <<tick, intervals>>
    ELSE tick' = 0 /\ intervals' = intervals

\* the state change of pauseTimer(), shared with resetTimer()
pauseEffect ==
  IF tick = 0
    THEN UNCHANGED <<tick, intervals>>
    ELSE tick' = 0 /\ intervals' = intervals \ {tick}

pauseTimer ==
  /\ pauseEffect
  /\ op' = Op("pause")
  /\ UNCHANGED <<draft, timerMode, remaining, focusMin, breakMin, listVars>>

resetTimer ==
  /\ pauseEffect
  /\ remaining' = setTimerFromInputs(draft, timerMode, focusMin, breakMin)
  /\ op' = Op("reset")
  /\ UNCHANGED <<draft, timerMode, focusMin, breakMin, listVars>>

Second ==
  /\ intervals # {}
  /\ LET t == stepN(Cardinality(intervals), draft,
                    [mode |-> timerMode, remaining |-> remaining], focusMin, breakMin)
     IN timerMode' = t.mode /\ remaining' = t.remaining
  /\ op' = Op("step")
  /\ UNCHANGED <<draft, tick, intervals, focusMin, breakMin, listVars>>

NextTimer ==
  \/ ChangeFocusMin
  \/ ChangeBreakMin
  \/ startTimer
  \/ pauseTimer
  \/ resetTimer
  \/ Second

(***************************************************************************)
(* Store adapter: localStorage behind loadJSON / saveJSON.                 *)
(* A raw entry is absent (getItem gives null), corrupt (JSON.parse         *)
(* throws) or the JSON text of a value; JSON.stringify followed by         *)
(* JSON.parse gives back a value built of strings, booleans, integers,     *)
(* null, arrays and objects unchanged, so the text is kept as the value    *)
(* it denotes.  fail says that the localStorage call itself throws.        *)
(***************************************************************************)
AbsentRaw  == [kind |-> "absent", val |-> <<>>]
CorruptRaw == [kind |-> "corrupt", val |-> <<>>]
stringify(value) == [kind |-> "json", val |-> value]

\* the try block of loadJSON: getItem throws when fail, a null raw gives the
\* fallback, JSON.parse throws on corrupt text
loadTry(st, key, fallback, fail) ==
  IF fail \/ st[key].kind = "corrupt" THEN [threw |-> TRUE, value |-> fallback]
  ELSE IF st[key].kind = "absent" THEN [threw |-> FALSE, value |-> fallback]
  ELSE [threw |-> FALSE, value |-> st[key].val]

\* mutant of loadOutcome: no catch around the try block
loadOutcomeNoCatch(st, key, fallback, fail) ==
  LET r == loadTry(st, key, fallback, fail)
  IN [raised |-> r.threw, value |-> r.value]

\* loadJSON with its catch: whether it raises to the caller, and what it returns
loadOutcome(st, key, fallback, fail) ==
  LET r == loadTry(st, key, fallback, fail)
  IN [raised |-> FALSE, value |-> IF r.threw THEN fallback ELSE r.value]

loadJSON(st, key, fallback, fail) == loadOutcome(st, key, fallback, fail).value

\* the try block of saveJSON: setItem throws when fail and stores nothing
saveTry(st, key, value, fail) ==
  IF fail THEN [threw |-> TRUE, st |-> st]
  ELSE [threw |-> FALSE, st |-> [st EXCEPT ![key] = stringify(value)]]

\* saveJSON with its empty catch
saveOutcome(st, key, value, fail) ==
  [raised |-> FALSE, st |-> saveTry(st, key, value, fail).st]

\* mutant of saveJSON: the key is removed before the write is attempted
saveJSONClearFirst(st, key, value, fail) ==
  IF fail THEN [st EXCEPT ![key] = AbsentRaw] ELSE [st EXCEPT ![key] = stringify(value)]

saveJSON(st, key, value, fail) == saveOutcome(st, key, value, fail).st

(***************************************************************************)
(* Dates and text                                                          *)
(***************************************************************************)
MaxDay == 2
\* the wall clock runs through these local dates, in order
Calendar == <<[y |-> 2026, m |-> 1, d |-> 9], [y |-> 2026, m |-> 1, d |-> 10],
              [y |-> 2026, m |-> 1, d |-> 11], [y |-> 2026, m |-> 1, d |-> 12]>>

DigitChar(n) ==
  CASE n = 0 -> "0" [] n = 1 -> "1" [] n = 2 -> "2" [] n = 3 -> "3"
    [] n = 4 -> "4" [] n = 5 -> "5" [] n = 6 -> "6" [] n = 7 -> "7"
    [] n = 8 -> "8" [] n = 9 -> "9"

\* String(n) for n >= 0
RECURSIVE String(_)
String(n) == IF n < 10 THEN <<DigitChar(n)>> ELSE String(n \div 10) \o <<DigitChar(n % 10)>>

\* first draft: String(n).padStart(2, "0")
fmt2a(n) == IF Len(String(n)) < 2 THEN <<"0">> \o String(n) ELSE String(n)
\* second draft: (n < 10 ? "0" : "") + String(n)
fmt2b(n) == (IF n < 10 THEN <<"0">> ELSE <<>>) \o String(n)
fmt2(d, n) == IF d = 1 THEN fmt2a(n) ELSE fmt2b(n)

todayISO(d, day) ==
  LET date == Calendar[day]
  IN String(date.y) \o <<"-">> \o fmt2(d, date.m) \o <<"-">> \o fmt2(d, date.d)

\* lastDone: null is written as the empty string, which no date equals
NoDate == <<>>

RECURSIVE DropTrailingBlanks(_)
DropTrailingBlanks(s) ==
  IF s # <<>> /\ s[Len(s)] = " " THEN DropTrailingBlanks(SubSeq(s, 1, Len(s) - 1)) ELSE s
\* (value || "").trim()
trim(s) == DropTrailingBlanks(SkipBlanks(s))

\* what the user may have typed in a text field
TextInputs == { <<" ", "A", " ">>, <<" ">> }

(***************************************************************************)
(* Pages: every element lookup of the script is guarded, so a page is the  *)
(* set of element ids it contains.                                         *)
(***************************************************************************)
Pages == {"tasks", "projects", "habits"}
PageElements(p) ==
  CASE p = "tasks" -> {"taskList", "taskInput", "addTaskBtn", "clearDoneBtn", "wipeAllBtn",
                       "todayDate", "plannedMinutes", "completedMinutes"}
    [] p = "projects" -> {"projectsWrap", "projName", "addProjBtn"}
    [] p = "habits" -> {"habitsWrap", "habitName", "addHabitBtn"}
\* $(id) is non-null
Has(id) == id \in PageElements(page)

(***************************************************************************)
(* Tasks                                                                   *)
(***************************************************************************)
MaxTasks == 4

\* t.minutes || 0 ; a task without minutes is written with minutes 0
RECURSIVE reduceMinutes(_, _)
reduceMinutes(tasks, a) ==
  IF tasks = <<>> THEN a ELSE reduceMinutes(Tail(tasks), a + Head(tasks).minutes)

IsDone(t) == t.done

\* mutant of updateKPIs1: the completed figure is not filtered by done
updateKPIs1NoFilter(tasks) ==
  [planned |-> reduceMinutes(tasks, 0), done |-> reduceMinutes(tasks, 0)]

\* first draft: reduce over all tasks, and over the filtered tasks
updateKPIs1(tasks) ==
  [planned |-> reduceMinutes(tasks, 0),
   done    |-> reduceMinutes(SelectSeq(tasks, IsDone), 0)]

\* second draft: one loop with two accumulators
RECURSIVE kpiLoop(_, _, _, _)
kpiLoop(tasks, i, planned, done) ==
  IF i > Len(tasks) THEN [planned |-> planned, done |-> done]
  ELSE kpiLoop(tasks, i + 1, planned + tasks[i].minutes,
               IF tasks[i].done THEN done + tasks[i].minutes ELSE done)
updateKPIs2(tasks) == kpiLoop(tasks, 1, 0, 0)

\* the figures updateKPIs() writes, from its own load of fd_tasks
updateKPIs(d, st, fail) ==
  LET tasks == loadJSON(st, "fd_tasks", <<>>, fail)
  IN IF d = 1 THEN updateKPIs1(tasks) ELSE updateKPIs2(tasks)

\* the array renderTasks() loads and its closures capture;
\* the second draft's renderTasks is an empty stub
renderTasks(d, st, fail) ==
  IF d = 1 /\ Has("taskList") THEN loadJSON(st, "fd_tasks", <<>>, fail) ELSE <<>>

\* the list items renderTasks() builds from the array it loaded:
\* tasks.slice(0,3), each with text, checkbox and (t.minutes || 25)
taskItems(tasks) ==
  [i \in 1..(IF Len(tasks) < 3 THEN Len(tasks) ELSE 3) |->
     [text |-> tasks[i].text, checked |-> tasks[i].done,
      minutes |-> IF tasks[i].minutes = 0 THEN 25 ELSE tasks[i].minutes]]
ShownTasks == taskItems(capTasks)

TaskItem(text) == [text |-> text, done |-> FALSE, minutes |-> 25]

\* updateKPIs() then renderTasks(), as every task handler ends
TaskRefresh(st, kfail, vfail) ==
  /\ kpi' = IF Has("plannedMinutes") THEN updateKPIs(draft, st, kfail) ELSE kpi
  /\ capTasks' = renderTasks(draft, st, vfail)

addTask ==
  /\ draft = 1 /\ Has("addTaskBtn")
  /\ \E v \in TextInputs, rfail, wfail, kfail, vfail \in BOOLEAN :
       IF ~Has("taskInput") \/ trim(v) = <<>>
         THEN /\ op' = Op("addTask/empty")
              /\ UNCHANGED <<store, kpi, capTasks>>
         ELSE LET tasks == loadJSON(store, "fd_tasks", <<>>, rfail)
                  st    == saveJSON(store, "fd_tasks", <<TaskItem(trim(v))>> \o tasks, wfail)
              IN /\ Len(tasks) < MaxTasks
                 /\ store' = st
                 /\ TaskRefresh(st, kfail, vfail)
                 /\ op' = ListOp("addTask", wfail, rfail, kfail, vfail, FALSE, 0)
  /\ UNCHANGED <<draft, other, timerVars, page, now, capProjects, capHabits, incToday>>

\* mutant of toggleTask: every closure sees the last value of the loop index
toggleTaskLastIndex ==
  /\ draft = 1
  /\ \E idx \in DOMAIN ShownTasks, wfail, kfail, vfail \in BOOLEAN :
       LET last  == Len(ShownTasks)
           tasks == [capTasks EXCEPT ![last].done = ~ShownTasks[idx].checked]
           st    == saveJSON(store, "fd_tasks", tasks, wfail)
       IN /\ store' = st
          /\ TaskRefresh(st, kfail, vfail)
          /\ op' = ListOp("toggleTask", wfail, FALSE, kfail, vfail, FALSE, idx)
  /\ UNCHANGED <<draft, other, timerVars, page, now, capProjects, capHabits, incToday>>

\* change handler of the checkbox of list item idx
toggleTask ==
  /\ draft = 1
  /\ \E idx \in DOMAIN ShownTasks, wfail, kfail, vfail \in BOOLEAN :
       LET tasks == [capTasks EXCEPT ![idx].done = ~ShownTasks[idx].checked]
           st    == saveJSON(store, "fd_tasks", tasks, wfail)
       IN /\ store' = st
          /\ TaskRefresh(st, kfail, vfail)
          /\ op' = ListOp("toggleTask", wfail, FALSE, kfail, vfail, FALSE, idx)
  /\ UNCHANGED <<draft, other, timerVars, page, now, capProjects, capHabits, incToday>>

NotDone(t) == ~t.done

clearDone ==
  /\ draft = 1 /\ Has("clearDoneBtn")
  /\ \E rfail, wfail, kfail, vfail \in BOOLEAN :
       LET tasks == SelectSeq(loadJSON(store, "fd_tasks", <<>>, rfail), NotDone)
           st    == saveJSON(store, "fd_tasks", tasks, wfail)
       IN /\ store' = st
          /\ TaskRefresh(st, kfail, vfail)
          /\ op' = ListOp("clearDone", wfail, rfail, kfail, vfail, FALSE, 0)
  /\ UNCHANGED <<draft, other, timerVars, page, now, capProjects, capHabits, incToday>>

\* mutant of wipeAll: it saves the open tasks, as clearDone does
wipeAllKeepsOpen ==
  /\ draft = 1 /\ Has("wipeAllBtn")
  /\ \E wfail, kfail, vfail \in BOOLEAN :
       LET tasks == SelectSeq(loadJSON(store, "fd_tasks", <<>>, FALSE), NotDone)
           st    == saveJSON(store, "fd_tasks", tasks, wfail)
       IN /\ store' = st
          /\ TaskRefresh(st, kfail, vfail)
          /\ op' = ListOp("wipeAll", wfail, FALSE, kfail, vfail, FALSE,
                           Len(loadJSON(store, "fd_tasks", <<>>, FALSE)))
  /\ UNCHANGED <<draft, other, timerVars, page, now, capProjects, capHabits, incToday>>

wipeAll ==
  /\ draft = 1 /\ Has("wipeAllBtn")
  /\ \E wfail, kfail, vfail \in BOOLEAN :
       LET st == saveJSON(store, "fd_tasks", <<>>, wfail)
       IN /\ store' = st
          /\ TaskRefresh(st, kfail, vfail)
          /\ op' = ListOp("wipeAll", wfail, FALSE, kfail, vfail, FALSE,
                           Len(loadJSON(store, "fd_tasks", <<>>, FALSE)))
  /\ UNCHANGED <<draft, other, timerVars, page, now, capProjects, capHabits, incToday>>

(***************************************************************************)
(* Projects                                                                *)
(***************************************************************************)
MaxProjects == 2
MaxMilestones == 2

renderProjects(d, st, fail) ==
  IF d = 1 /\ Has("projectsWrap") THEN loadJSON(st, "fd_projects", <<>>, fail) ELSE <<>>

\* the cards renderProjects() builds: one heading per project
projectCards(projects) == [i \in DOMAIN projects |-> projects[i].name]
ShownProjects == projectCards(capProjects)

addProject ==
  /\ draft = 1 /\ Has("addProjBtn")
  /\ \E v \in TextInputs, rfail, wfail, vfail \in BOOLEAN :
       IF ~Has("projName") \/ trim(v) = <<>>
         THEN /\ op' = Op("addProject/empty")
              /\ UNCHANGED <<store, capProjects>>
         ELSE LET projects == loadJSON(store, "fd_projects", <<>>, rfail)
                  item     == [name |-> trim(v), milestones |-> <<>>]
                  st       == saveJSON(store, "fd_projects", <<item>> \o projects, wfail)
              IN /\ Len(projects) < MaxProjects
                 /\ store' = st
                 /\ capProjects' = renderProjects(draft, st, vfail)
                 /\ op' = ListOp("addProject", wfail, rfail, FALSE, vfail, FALSE, 0)
  /\ UNCHANGED <<draft, other, timerVars, page, now, capTasks, capHabits, kpi, incToday>>

\* click handler of the "Add milestone" button of card idx
addMilestone ==
  /\ draft = 1
  /\ \E idx \in DOMAIN ShownProjects, v \in TextInputs, wfail, vfail \in BOOLEAN :
       IF trim(v) = <<>>
         THEN /\ op' = Op("addMilestone/empty")
              /\ UNCHANGED <<store, capProjects>>
         ELSE LET ms       == <<[text |-> trim(v), done |-> FALSE]>> \o capProjects[idx].milestones
                  projects == [capProjects EXCEPT ![idx].milestones = ms]
                  st       == saveJSON(store, "fd_projects", projects, wfail)
              IN /\ Len(capProjects[idx].milestones) < MaxMilestones
                 /\ store' = st
                 /\ capProjects' = renderProjects(draft, st, vfail)
                 /\ op' = ListOp("addMilestone", wfail, FALSE, FALSE, vfail, FALSE, idx)
  /\ UNCHANGED <<draft, other, timerVars, page, now, capTasks, capHabits, kpi, incToday>>

(***************************************************************************)
(* Habits                                                                  *)
(***************************************************************************)
MaxHabits == 2

\* what renderHabits() loads, with the date its closures capture
renderHabits(d, st, fail, day) ==
  IF d = 1 /\ Has("habitsWrap")
    THEN [habits |-> loadJSON(st, "fd_habits", <<>>, fail), today |-> todayISO(d, day)]
    ELSE [habits |-> <<>>, today |-> NoDate]

\* the cards renderHabits() builds: name and whether the button is ticked
habitCards(cap) ==
  [i \in DOMAIN cap.habits |->
     [name |-> cap.habits[i].name, ticked |-> cap.habits[i].lastDone = cap.today]]
ShownHabits == habitCards(capHabits)

\* id is a history field: it names the habit for incToday and is not read
\* by the script
HabitItem(name, id) == [name |-> name, streak |-> 0, lastDone |-> NoDate, id |-> id]

addHabit ==
  /\ draft = 1 /\ Has("addHabitBtn")
  /\ \E v \in TextInputs, rfail, wfail, vfail \in BOOLEAN :
       IF ~Has("habitName") \/ trim(v) = <<>>
         THEN /\ op' = Op("addHabit/empty")
              /\ UNCHANGED <<store, capHabits, incToday>>
         ELSE LET habits == loadJSON(store, "fd_habits", <<>>, rfail)
                  item   == HabitItem(trim(v), Len(incToday) + 1)
                  st     == saveJSON(store, "fd_habits", <<item>> \o habits, wfail)
              IN /\ Len(incToday) < MaxHabits
                 /\ store' = st
                 /\ capHabits' = renderHabits(draft, st, vfail, now)
                 /\ incToday' = Append(incToday, 0)
                 /\ op' = ListOp("addHabit", wfail, rfail, FALSE, vfail, FALSE, 0)
  /\ UNCHANGED <<draft, other, timerVars, page, now, capTasks, capProjects, kpi>>

\* click handler of the "Done today" button of card idx
doneToday ==
  /\ draft = 1
  /\ \E idx \in DOMAIN ShownHabits, rfail, wfail, vfail \in BOOLEAN :
       LET hs == loadJSON(store, "fd_habits", <<>>, rfail)
       IN IF idx > Len(hs)
            \* hs[idx] is undefined: reading .lastDone throws a TypeError
            THEN /\ op' = ListOp("doneToday", FALSE, rfail, FALSE, FALSE, TRUE, idx)
                 /\ UNCHANGED <<store, capHabits, incToday>>
            ELSE IF hs[idx].lastDone = capHabits.today
              THEN /\ op' = ListOp("doneToday", FALSE, rfail, FALSE, FALSE, FALSE, idx)
                   /\ UNCHANGED <<store, capHabits, incToday>>
              ELSE LET hs2 == [hs EXCEPT ![idx].lastDone = capHabits.today,
                                         ![idx].streak = hs[idx].streak + 1]
                       st  == saveJSON(store, "fd_habits", hs2, wfail)
                   IN /\ store' = st
                      /\ capHabits' = renderHabits(draft, st, vfail, now)
                      /\ incToday' = IF wfail THEN incToday
                                     ELSE [incToday EXCEPT ![hs[idx].id] = @ + 1]
                      /\ op' = ListOp("doneToday", wfail, rfail, FALSE, vfail, FALSE, idx)
  /\ UNCHANGED <<draft, other, timerVars, page, now, capTasks, capProjects, kpi>>

\* midnight passes on the wall clock
AdvanceDate ==
  /\ now < MaxDay
  /\ now' = now + 1
  /\ incToday' = [i \in DOMAIN incToday |-> 0]
  /\ op' = Op("midnight")
  /\ UNCHANGED <<draft, other, timerVars, page, store, capTasks, capProjects, capHabits, kpi>>

\* the page is (re)loaded: the script starts over and renders every list
DOMContentLoaded ==
  /\ \E kfail, tfail, pfail, hfail \in BOOLEAN :
       /\ kpi' = IF Has("plannedMinutes") THEN updateKPIs(draft, store, kfail) ELSE kpi
       /\ capTasks' = renderTasks(draft, store, tfail)
       /\ capProjects' = renderProjects(draft, store, pfail)
       /\ capHabits' = renderHabits(draft, store, hfail, now)
       /\ op' = ListOp("load", FALSE, FALSE, kfail, tfail \/ pfail \/ hfail, FALSE, 0)
  /\ timerMode' = "focus"
  /\ remaining' = setTimerFromInputs(draft, "focus", focusMin, breakMin)
  /\ tick' = 0
  /\ intervals' = {}
  /\ UNCHANGED <<draft, other, focusMin, breakMin, page, store, now, incToday>>

Next ==
  \/ addTask
  \/ toggleTask
  \/ clearDone
  \/ wipeAll
  \/ addProject
  \/ addMilestone
  \/ addHabit
  \/ doneToday
  \/ AdvanceDate
  \/ DOMContentLoaded

(***************************************************************************)
(* A second tab showing the same page runs the add handler of that page.   *)
(* The two tabs are separate event loops, so the other tab's load and save *)
(* are separate steps and a handler of this tab may run between them.      *)
(* The other tab adds once: pc goes idle, loaded, done.                    *)
(***************************************************************************)
PageKey(p) ==
  CASE p = "tasks" -> "fd_tasks" [] p = "projects" -> "fd_projects" [] p = "habits" -> "fd_habits"
PageMax(p) ==
  CASE p = "tasks" -> MaxTasks [] p = "projects" -> MaxProjects [] p = "habits" -> MaxHabits

\* the item the other tab's add handler puts in front
OtherItem(p) ==
  CASE p = "tasks" -> TaskItem(<<"Z">>)
    [] p = "projects" -> [name |-> <<"Z">>, milestones |-> <<>>]
    [] p = "habits" -> HabitItem(<<"Z">>, Len(incToday) + 1)

\* const tasks = loadJSON(key, []) in the other tab
OtherTabLoad ==
  /\ draft = 1 /\ other.pc = "idle"
  /\ Len(loadJSON(store, PageKey(page), <<>>, FALSE)) < PageMax(page)
  /\ page = "habits" => Len(incToday) < MaxHabits
  /\ other' = [pc |-> "loaded", loaded |-> loadJSON(store, PageKey(page), <<>>, FALSE)]
  /\ op' = Op("otherLoad")
  /\ UNCHANGED <<draft, timerVars, page, store, now, capTasks, capProjects, capHabits,
                 kpi, incToday>>

\* mutant of OtherTabSave: the collection is loaded again right before the save
OtherTabSaveReload ==
  /\ draft = 1 /\ other.pc = "loaded"
  /\ store' = saveJSON(store, PageKey(page),
                       <<OtherItem(page)>> \o loadJSON(store, PageKey(page), <<>>, FALSE), FALSE)
  /\ incToday' = IF page = "habits" THEN Append(incToday, 0) ELSE incToday
  /\ other' = [pc |-> "done", loaded |-> <<>>]
  /\ op' = ListOp("otherSave", FALSE, FALSE, FALSE, FALSE, FALSE,
                  IF loadJSON(store, PageKey(page), <<>>, FALSE) # other.loaded THEN 1 ELSE 0)
  /\ UNCHANGED <<draft, timerVars, page, now, capTasks, capProjects, capHabits, kpi>>

\* tasks.unshift(item); saveJSON(key, tasks) in the other tab; this tab is not
\* re-rendered.  arg is 1 when the entry changed since the other tab loaded it
OtherTabSave ==
  /\ draft = 1 /\ other.pc = "loaded"
  /\ store' = saveJSON(store, PageKey(page), <<OtherItem(page)>> \o other.loaded, FALSE)
  /\ incToday' = IF page = "habits" THEN Append(incToday, 0) ELSE incToday
  /\ other' = [pc |-> "done", loaded |-> <<>>]
  /\ op' = ListOp("otherSave", FALSE, FALSE, FALSE, FALSE, FALSE,
                  IF loadJSON(store, PageKey(page), <<>>, FALSE) # other.loaded THEN 1 ELSE 0)
  /\ UNCHANGED <<draft, timerVars, page, now, capTasks, capProjects, capHabits, kpi>>

NextTabs ==
  \/ addTask
  \/ toggleTask
  \/ addProject
  \/ addMilestone
  \/ addHabit
  \/ doneToday
  \/ OtherTabLoad
  \/ OtherTabSave

(***************************************************************************)
(* Initial states and specifications                                       *)
(***************************************************************************)
Keys == {"fd_tasks", "fd_projects", "fd_habits"}
EmptyStore == [k \in Keys |-> AbsentRaw]

\* collections an earlier session may have left in the store
OldTasks == << [text |-> <<"A">>, done |-> FALSE, minutes |-> 25],
               [text |-> <<"B">>, done |-> TRUE, minutes |-> 10] >>
OldProjects == << [name |-> <<"P">>, milestones |-> <<>>] >>
OldHabits == << [name |-> <<"H">>, streak |-> 2, id |-> 1,
                 lastDone |-> <<"2", "0", "2", "6", "-", "0", "1", "-", "0", "8">>] >>

InitStores(p) ==
  CASE p = "tasks" ->
         {[EmptyStore EXCEPT !["fd_tasks"] = r] : r \in {AbsentRaw, CorruptRaw, stringify(OldTasks)}}
    [] p = "projects" ->
         {[EmptyStore EXCEPT !["fd_projects"] = r] : r \in {AbsentRaw, stringify(OldProjects)}}
    [] p = "habits" ->
         {[EmptyStore EXCEPT !["fd_habits"] = r] : r \in {AbsentRaw, stringify(OldHabits)}}

\* let timerMode="focus", remaining=25*60, tick=null, then the
\* DOMContentLoaded handler has called setTimerFromInputs()
TimerStart ==
  /\ timerMode = "focus"
  /\ remaining = setTimerFromInputs(draft, "focus", focusMin, breakMin)
  /\ tick = 0
  /\ intervals = {}

\* the state the DOMContentLoaded handler leaves when every load succeeds
ListsStart ==
  /\ now = 1
  /\ kpi = updateKPIs(draft, store, FALSE)
  /\ capTasks = renderTasks(draft, store, FALSE)
  /\ capProjects = renderProjects(draft, store, FALSE)
  /\ capHabits = renderHabits(draft, store, FALSE, 1)
  /\ incToday = [i \in DOMAIN loadJSON(store, "fd_habits", <<>>, FALSE) |-> 0]
  /\ other = [pc |-> "idle", loaded |-> <<>>]

Init ==
  /\ draft \in {1, 2}
  /\ op = Op("init")
  /\ focusMin = El(<<>>)
  /\ breakMin = El(<<>>)
  /\ TimerStart
  /\ page \in Pages
  /\ store \in InitStores(page)
  /\ ListsStart

InitTimer ==
  /\ draft \in {1, 2}
  /\ op = Op("init")
  /\ focusMin \in {El(v) : v \in FocusValues} \cup {Absent}
  /\ breakMin \in {El(v) : v \in BreakValues} \cup {Absent}
  /\ TimerStart
  /\ page = "tasks"
  /\ store = EmptyStore
  /\ ListsStart

\* the list pages
Spec == Init /\ [][Next]_vars

\* the timer
SpecTimer == InitTimer /\ [][NextTimer]_vars

\* the timer left to run: start is pressed and the interval keeps firing
NextRun ==
  \/ startTimer
  \/ Second

\* setInterval fires every second for as long as it is active
SpecTimerFair == InitTimer /\ [][NextRun]_vars /\ WF_vars(Second)

\* the list pages with a second tab open
SpecTabs == Init /\ [][NextTabs]_vars

(***************************************************************************)
(* Properties                                                              *)
(***************************************************************************)
\* the collection a successful read of key k returns
Stored(k) == loadJSON(store, k, <<>>, FALSE)

TaskOps    == {"addTask", "toggleTask", "clearDone", "wipeAll"}
ProjectOps == {"addProject", "addMilestone"}
HabitOps   == {"addHabit", "doneToday"}

\* C1: when the save of a list operation fails, the store is left as it was
\* and the re-render that follows (its own read succeeding) shows exactly what
\* a render of the collection stored before the operation shows.
C1_FailedWriteInvisible ==
  [][ (op'.wfail /\ ~op'.vfail) =>
        /\ store' = store
        /\ (op'.name \in TaskOps => ShownTasks' = taskItems(Stored("fd_tasks")))
        /\ (op'.name \in ProjectOps => ShownProjects' = projectCards(Stored("fd_projects")))
        /\ (op'.name \in HabitOps =>
              ShownHabits' = habitCards([habits |-> Stored("fd_habits"),
                                         today |-> todayISO(draft, now)])) ]_vars

\* a toggle whose save failed, re-rendered over a non-empty stored list
C1_Witness ==
  /\ op.name = "toggleTask" /\ op.wfail /\ ~op.vfail
  /\ Stored("fd_tasks") # <<>>
  /\ ShownTasks = taskItems(Stored("fd_tasks"))

\* C2: no habit's streak is increased more than once on one calendar date.
C2_OncePerDate == \A i \in DOMAIN incToday : incToday[i] <= 1

\* C3: a done-today click on a habit whose streak was already increased on
\* the current calendar date leaves the stored habit collection unchanged.
C3_SecondDoneTodayNoChange ==
  [][ (/\ op'.name = "doneToday"
       /\ op'.arg \in DOMAIN Stored("fd_habits")
       /\ incToday[Stored("fd_habits")[op'.arg].id] >= 1)
      => store' = store ]_vars

Clamp(lo, hi, x) == IF x < lo THEN lo ELSE IF x > hi THEN hi ELSE x

\* the duration field of the current phase
PhaseInput == IF timerMode = "focus" THEN focusMin ELSE breakMin

\* C4: after configure with an integer in the field of the current phase,
\* remaining is 60 * min(90, max(5, f)) in focus and 60 * min(30, max(1, b))
\* in break.
C4_ConfigureClamps ==
  (op.name = "configure" /\ PhaseInput.present /\ ~parseInt(PhaseInput.value).nan) =>
     remaining = Num(60 * (IF timerMode = "focus"
                             THEN Clamp(5, 90, parseInt(PhaseInput.value).v)
                             ELSE Clamp(1, 30, parseInt(PhaseInput.value).v)))

\* C5: after configure with an empty or non-numeric field for the current
\* phase, remaining is 60 * 25 in focus and 60 * 5 in break, and after any
\* configure remaining is a non-negative integer.
C5_ConfigureDefaults ==
  op.name = "configure" =>
     /\ ~remaining.nan /\ remaining.v >= 0
     /\ (PhaseInput.present /\ parseInt(PhaseInput.value).nan) =>
           remaining = Num(60 * (IF timerMode = "focus" THEN 25 ELSE 5))

\* the minutes configure is specified to use for a phase (C4, C5)
ContractMinutes(mode) ==
  LET el == IF mode = "focus" THEN focusMin ELSE breakMin
      p  == parseInt(el.value)
  IN IF ~el.present \/ p.nan THEN (IF mode = "focus" THEN 25 ELSE 5)
     ELSE IF mode = "focus" THEN Clamp(5, 90, p.v) ELSE Clamp(1, 30, p.v)

\* C6: a tick of the one running callback at remaining = 1 flips the phase,
\* sets remaining to 60 times the configured minutes of the new phase and
\* leaves the timer running.
C6_TickFlipsAndReloads ==
  [][ (op'.name = "step" /\ remaining = Num(1) /\ Cardinality(intervals) = 1) =>
        /\ timerMode' = Flip(timerMode)
        /\ remaining' = Num(60 * ContractMinutes(timerMode'))
        /\ tick' = tick /\ tick' # 0 /\ intervals' = intervals ]_vars

\* C7: at most one periodic callback is active, and the script holds a handle
\* exactly when one is active, namely that one.
C7_OneCallback ==
  /\ Cardinality(intervals) <= 1
  /\ (tick # 0) <=> (intervals # {})
  /\ tick # 0 => intervals = {tick}

\* start pressed while already running, one callback active afterwards
C7_Witness == op.name = "start" /\ op.arg # 0 /\ Cardinality(intervals) = 1

\* C8: remaining is an integer between 0 and the full duration of the
\* current phase as configure derives it from the fields.
C8_RemainingInRange ==
  /\ ~remaining.nan
  /\ remaining.v >= 0
  /\ remaining.v <= setTimerFromInputs(draft, timerMode, focusMin, breakMin).v

\* C9 as stated: after wipeAll every read of fd_tasks gives the empty list.
C9_WipeAllEmpties ==
  op.name = "wipeAll" => \A fail \in BOOLEAN : loadJSON(store, "fd_tasks", <<>>, fail) = <<>>

\* C9 amended: after a wipeAll whose save succeeded every read of fd_tasks
\* gives the empty list.
C9_WipeAllEmptiesWhenSaved ==
  (op.name = "wipeAll" /\ ~op.wfail) =>
     \A fail \in BOOLEAN : loadJSON(store, "fd_tasks", <<>>, fail) = <<>>

\* a saved wipeAll over a non-empty stored list
C9_Witness == op.name = "wipeAll" /\ ~op.wfail /\ op.arg > 0 /\ Stored("fd_tasks") = <<>>

\* sum of minutes over the tasks at the positions in S
RECURSIVE SumMinutes(_, _)
SumMinutes(tasks, S) ==
  IF S = {} THEN 0
  ELSE LET i == CHOOSE j \in S : TRUE IN tasks[i].minutes + SumMinutes(tasks, S \ {i})

Figures(tasks) ==
  [planned |-> SumMinutes(tasks, DOMAIN tasks),
   done    |-> SumMinutes(tasks, {i \in DOMAIN tasks : tasks[i].done})]

\* C10: when the last handler ran updateKPIs with a successful read, the planned and
\* completed figures are the sum of minutes over all stored tasks and over
\* the stored tasks that are done, and both drafts compute these figures.
C10_KpiSums ==
  (op.name \in TaskOps \cup {"load"} /\ ~op.kfail /\ Has("plannedMinutes")) =>
     /\ kpi = Figures(Stored("fd_tasks"))
     /\ updateKPIs1(Stored("fd_tasks")) = Figures(Stored("fd_tasks"))
     /\ updateKPIs2(Stored("fd_tasks")) = Figures(Stored("fd_tasks"))

\* the figures after adding a task to the list of 25 (open) and 10 (done)
C10_Witness ==
  /\ op.name = "addTask" /\ ~op.kfail
  /\ Len(Stored("fd_tasks")) = 3
  /\ kpi = [planned |-> 60, done |-> 10]

\* C11: for every key and every outcome of the localStorage call, loadJSON
\* does not raise and returns the stored value when the entry is present and
\* parses, the caller's fallback otherwise; saveJSON does not raise and
\* either replaces the entry of that key alone or leaves the store as it was.
C11_AdapterNeverRaises ==
  \A k \in Keys, fail \in BOOLEAN :
    LET fb == <<"fallback">>
        l  == loadOutcome(store, k, fb, fail)
        w  == saveOutcome(store, k, fb, fail)
    IN /\ ~l.raised
       /\ l.value = IF ~fail /\ store[k].kind = "json" THEN store[k].val ELSE fb
       /\ ~w.raised
       /\ IF fail THEN w.st = store
          ELSE /\ w.st[k] = stringify(fb)
               /\ \A j \in Keys \ {k} : w.st[j] = store[j]

\* an add that ran over a corrupt entry with its own read and its save failing
C11_Witness ==
  /\ op.name = "addTask" /\ op.rfail /\ op.wfail
  /\ store["fd_tasks"].kind = "corrupt"

\* C12: the collection a mutating list operation saves is the mutation of
\* the collection the store holds when the operation runs: an add saves the
\* stored items behind one new item, clear completed saves the stored open
\* tasks, and an index-addressed update saves a collection as long as the
\* stored one and equal to it at every position but the clicked one.
C12_SavesFromFreshLoad ==
  [][ (~op'.wfail /\ ~op'.rfail /\ op'.name \in TaskOps \cup ProjectOps \cup HabitOps) =>
        LET k   == PageKey(page)
            old == Stored(k)
            new == Stored(k)'
        IN /\ op'.name \in {"addTask", "addProject", "addHabit"} =>
                (new # <<>> /\ Tail(new) = old)
           /\ op'.name = "clearDone" => new = SelectSeq(old, NotDone)
           /\ op'.name \in {"toggleTask", "addMilestone", "doneToday"} =>
                /\ Len(new) = Len(old)
                /\ \A j \in DOMAIN old : j # op'.arg => new[j] = old[j] ]_vars

\* C14: when the other tab saves after this tab wrote the entry the other
\* tab had already loaded, the stored collection becomes exactly the other
\* tab's collection (its item in front of what it had loaded) and the save
\* completes like any other.
C14_LastWriterWins ==
  [][ (op'.name = "otherSave" /\ op'.arg = 1) =>
        /\ Stored(PageKey(page))' = <<OtherItem(page)>> \o other.loaded
        /\ ~op'.threw /\ ~op'.wfail ]_vars

\* the other tab has saved over a write this tab made after the other's load
C14_Witness ==
  /\ op.name = "otherSave" /\ op.arg = 1
  /\ Stored(PageKey(page)) # <<>>

\* C13: no handler or render run ends by throwing.
C13_NoFatalPath == ~op.threw

\* C15: the phase changes only in a tick at remaining = 1; start, pause,
\* reset and configure leave it; configure leaves the callback as it is; and
\* reset leaves the timer not running with remaining a number, the full
\* duration of the current phase, as pause followed by configure does.
C15_PhaseFrame ==
  [][ /\ timerMode' # timerMode => (op'.name = "step" /\ remaining = Num(1))
      /\ op'.name \in {"start", "pause", "reset", "configure"} => timerMode' = timerMode
      /\ op'.name = "configure" => (tick' = tick /\ intervals' = intervals)
      /\ op'.name = "reset" =>
           /\ tick' = 0 /\ intervals' = intervals \ {tick}
           /\ ~remaining'.nan
           /\ remaining' = setTimerFromInputs(draft, timerMode, focusMin, breakMin) ]_vars

\* C16: pause and start leave phase and remaining as they are, no tick runs
\* while the timer is paused, pause on a paused timer changes nothing, while
\* paused only configure and reset change the countdown, and a tick above 1
\* takes one second off the value it finds.
C16_SurvivesPause ==
  [][ /\ op'.name \in {"pause", "start"} => (timerMode' = timerMode /\ remaining' = remaining)
      /\ tick = 0 => op'.name # "step"
      /\ (op'.name = "pause" /\ tick = 0) => UNCHANGED timerVars
      /\ (tick = 0 /\ op'.name \notin {"configure", "reset"}) =>
            (timerMode' = timerMode /\ remaining' = remaining)
      /\ (op'.name = "step" /\ ~remaining.nan /\ remaining.v > 1) =>
            (remaining' = Num(remaining.v - 1) /\ timerMode' = timerMode) ]_vars

\* the timer resumed in the middle of a countdown
C16_Witness ==
  /\ op.name = "start" /\ op.arg = 0 /\ tick # 0
  /\ ~remaining.nan
  /\ remaining.v < setTimerFromInputs(draft, timerMode, focusMin, breakMin).v

\* C17: a running timer in focus eventually is in break, and a running timer
\* in break eventually is in focus.
C17_AlternatesForever ==
  /\ (tick # 0 /\ timerMode = "focus") ~> (timerMode = "break")
  /\ (tick # 0 /\ timerMode = "break") ~> (timerMode = "focus")

\* C18: an add that changes the store leaves the new item in front of every
\* item stored before, in the order they had.
C18_AddKeepsItems ==
  [][ (op'.name \in {"addTask", "addProject", "addHabit"} /\ store' # store) =>
        /\ Stored(PageKey(page))' # <<>>
        /\ Tail(Stored(PageKey(page))') = Stored(PageKey(page)) ]_vars

\* C19: with this tab the only writer, an index-addressed update keeps the
\* length of the stored collection and every item but the clicked one, and
\* when it changes the store the changed item is the stored item that the
\* clicked card or checkbox displayed, with only the intended field changed.
C19_UpdateHitsClickedItem ==
  [][ op'.name \in {"toggleTask", "addMilestone", "doneToday"} =>
        LET old == Stored(PageKey(page))
            new == Stored(PageKey(page))'
            i   == op'.arg
        IN /\ Len(new) = Len(old)
           /\ \A j \in DOMAIN old : j # i => new[j] = old[j]
           /\ store' # store =>
                /\ i \in DOMAIN old
                /\ op'.name = "toggleTask" =>
                     /\ ShownTasks[i].text = old[i].text
                     /\ ShownTasks[i].checked = old[i].done
                     /\ new[i] = [old[i] EXCEPT !.done = ~old[i].done]
                /\ op'.name = "addMilestone" =>
                     /\ ShownProjects[i] = old[i].name
                     /\ new[i].name = old[i].name
                     /\ Tail(new[i].milestones) = old[i].milestones
                /\ op'.name = "doneToday" =>
                     /\ ShownHabits[i].name = old[i].name
                     /\ new[i] = [old[i] EXCEPT !.streak = old[i].streak + 1,
                                                !.lastDone = capHabits.today] ]_vars

\* the second of three stored tasks was toggled and saved
C19_Witness ==
  /\ op.name = "toggleTask" /\ op.arg = 2 /\ ~op.wfail
  /\ Len(Stored("fd_tasks")) = 3
  /\ ~Stored("fd_tasks")[2].done

\* C20: after a task operation whose re-render read the store, the rendered
\* list has one item per stored task, in stored order, each with the text and
\* the done flag of its task.
C20_RenderShowsAllTasks ==
  (op.name \in TaskOps /\ ~op.vfail) =>
     /\ Len(ShownTasks) = Len(Stored("fd_tasks"))
     /\ \A i \in DOMAIN ShownTasks :
          /\ ShownTasks[i].text = Stored("fd_tasks")[i].text
          /\ ShownTasks[i].checked = Stored("fd_tasks")[i].done
====
